---- MODULE Spec2Model ----
(***************************************************************************)
(* A model of elementpath's xpath_base.py: the XPath dynamic context       *)
(* (XPathContext) and its axis traversal generators.                       *)
(*                                                                         *)
(* Items are records [k, a, b]: k is the kind of Python object, a and b    *)
(* carry its identity.  Elements are numbered 1..MaxNodes, element 1 being *)
(* the root element of the tree.  A generator is a frame: the values of    *)
(* its locals while it is suspended at a yield.  One action resumes a      *)
(* generator and runs it up to its next yield, its return or its raise.    *)
(***************************************************************************)
EXTENDS Integers, Sequences, FiniteSets, TLC

\* Number of elements of the document.
MaxNodes == 4
\* Attribute names are 1..MaxAttrs (ordered as the names' strings are).
MaxAttrs == 2
\* No generator is resumed after it has produced this many values.
MaxOut == 12
\* Calls of copy() in one evaluation.
MaxCopies == 2

VARIABLES
    kids,      \* kids[e]: the children of element e, in document order
    txt,       \* the elements whose text is not None
    attrib,    \* attrib[e]: the (name, value) items of e.attrib, in insertion order
    rootDoc,   \* TRUE: context.root is a Document, FALSE: it is element 1
    ctxs,      \* the XPathContext objects; ctxs[1] is the constructed one
    dicts,     \* the heap of `variables` dictionaries: dicts[d] is the content of d
    nbuilt,    \* parent-map objects built so far (each by a full tree walk)
    stack,     \* the suspended generators, innermost last
    last,      \* the outcome of the generator that ended last
    value,     \* the argument of the token's helper method (boolean, name)
    result,    \* the outcome of the helper method's call
    evals      \* calls of the token's evaluate() so far

vars == <<kids, txt, attrib, rootDoc, ctxs, dicts, nbuilt, stack, last, value, result, evals>>

Nodes == 1..MaxNodes

----------------------------------------------------------------------------
\* Python values

None == [k |-> "none", a |-> 0, b |-> 0]
Elem(e) == [k |-> "elem", a |-> e, b |-> 0]
\* An element-like object whose tag is the callable Comment; it is not part of the tree.
Cmt == [k |-> "comment", a |-> 0, b |-> 0]
Doc == [k |-> "doc", a |-> 0, b |-> 0]
\* The string that is the text of element e (of the comment for e = 0).
Text(e) == [k |-> "text", a |-> e, b |-> 0]
Pair(n, v) == [k |-> "pair", a |-> n, b |-> v]
Num(n) == [k |-> "num", a |-> n, b |-> 0]

is_etree_element(obj) == obj.k \in {"elem", "comment", "pi"}


is_document_node(obj) == obj.k = "doc"

\* len(elem) and iteration over elem
Children(obj) == IF obj.k = "elem" THEN kids[obj.a] ELSE <<>>

\* elem.text
TextOf(obj) ==
    IF obj.k = "comment" THEN Text(0)
    ELSE IF obj.k = "elem" /\ obj.a \in txt THEN Text(obj.a)
    ELSE None

\* self.root, and self.root.getroot() if is_document_node(self.root) else self.root
RootObj == IF rootDoc THEN Doc ELSE Elem(1)

RootElem == IF is_document_node(RootObj) THEN Elem(1) ELSE RootObj

----------------------------------------------------------------------------
\* More Python values, and the other node type tests

\* An element-like object whose tag is the callable ProcessingInstruction.
PI == [k |-> "pi", a |-> 0, b |-> 0]
\* A tuple that carries __name__ = 'Namespace'.
Namespace(p, u) == [k |-> "namespace", a |-> p, b |-> u]
\* The string ''.
EmptyStr == [k |-> "text", a |-> 0, b |-> 1]
\* The string that is the tag of element e.
Tag(e) == [k |-> "tag", a |-> e, b |-> 0]
\* The string that is attribute name n.
Name(n) == [k |-> "name", a |-> n, b |-> 0]
\* True and False
Bool(t) == [k |-> "bool", a |-> IF t THEN 1 ELSE 0, b |-> 0]
\* A list object and its items.
List(s) == [k |-> "list", items |-> s]

\* callable(obj.tag)
CallableTag(obj) == obj.k \in {"comment", "pi"}

\* obj.tag.__name__
TagName(obj) == IF obj.k = "comment" THEN "Comment" ELSE "ProcessingInstruction"

\* isinstance(obj, tuple)
IsTuple(obj) == obj.k \in {"pair", "namespace"}

\* getattr(obj, '__name__', '')
MarkerOf(obj) == IF obj.k = "namespace" THEN "Namespace" ELSE ""

\* isinstance(obj, list)
IsList(obj) == obj.k = "list"

\* is_element_node(obj) with tag None
is_element_node(obj) == is_etree_element(obj) /\ ~CallableTag(obj)

is_comment_node(obj) ==
    is_etree_element(obj) /\ CallableTag(obj) /\ TagName(obj) = "Comment"

is_processing_instruction_node(obj) ==
    is_etree_element(obj) /\ CallableTag(obj) /\ TagName(obj) = "ProcessingInstruction"

\* A test for tuples that does not look at __name__.
AnyTupleIsAttribute(obj) == IsTuple(obj)

\* is_attribute_node(obj) with name None
is_attribute_node(obj) == IsTuple(obj) /\ MarkerOf(obj) # "Namespace"

is_namespace_node(obj) == IsTuple(obj) /\ MarkerOf(obj) = "Namespace"

\* isinstance(obj, str)
is_text_node(obj) == obj.k \in {"text", "tag", "name"}

is_xpath_node(obj) ==
    IsTuple(obj) \/ is_etree_element(obj) \/ is_document_node(obj) \/ is_text_node(obj)

\* bool(obj): None, False, 0, '' and empty containers are false; an Element
\* is true when it has children; any other object is true.
Truthy(obj) ==
    CASE obj.k = "none" -> FALSE
      [] obj.k = "bool" -> obj.a = 1
      [] obj.k = "num" -> obj.a # 0
      [] obj.k = "text" -> obj.b = 0
      [] obj.k = "list" -> obj.items # <<>>
      [] obj.k \in {"elem", "comment", "pi"} -> Len(Children(obj)) > 0
      [] OTHER -> TRUE

----------------------------------------------------------------------------
\* sorted(self.item.attrib.items()): tuples compare by name, then by value

PairLess(p, q) == p.a < q.a \/ (p.a = q.a /\ p.b < q.b)

RECURSIVE Insert(_, _)
Insert(p, s) ==
    IF s = <<>> THEN <<p>>
    ELSE IF PairLess(p, Head(s)) THEN <<p>> \o s
    ELSE <<Head(s)>> \o Insert(p, Tail(s))

\* items() taken as it comes, without sorted().
Unsorted(s) == s

RECURSIVE Sorted(_)
Sorted(s) == IF s = <<>> THEN <<>> ELSE Insert(Head(s), Sorted(Tail(s)))

----------------------------------------------------------------------------
\* The parent map: {child: elem for elem in self.root.iter() for child in elem}

\* An iteration that stops at the first element and never descends.
IterRootOnly(todo, seen) == IF todo = <<>> THEN <<>> ELSE <<Head(todo)>>

\* root.iter(): the elements reachable from the root element, each once, in
\* pre-order (on a tree, the document order).
RECURSIVE IterFrom(_, _)
IterFrom(todo, seen) ==
    IF todo = <<>> THEN <<>>
    ELSE IF Head(todo) \in seen THEN IterFrom(Tail(todo), seen)
    ELSE <<Head(todo)>> \o IterFrom(kids[Head(todo)] \o Tail(todo), seen \cup {Head(todo)})

RootIter == IterFrom(<<1>>, {})

RECURSIVE PutChildren(_, _, _)
PutChildren(e, cs, pm) ==
    IF cs = <<>> THEN pm
    ELSE PutChildren(e, Tail(cs), [pm EXCEPT ![Head(cs)] = e])

RECURSIVE PutElems(_, _)
PutElems(es, pm) ==
    IF es = <<>> THEN pm
    ELSE PutElems(Tail(es), PutChildren(Head(es), kids[Head(es)], pm))

\* The dictionary's content: ParentMap[c] is the parent of c, 0 when c is no key.
ParentMap == PutElems(RootIter, [c \in Nodes |-> 0])

\* parent_map[obj]: 0 stands for KeyError
Lookup(obj) == IF obj.k = "elem" THEN ParentMap[obj.a] ELSE 0

----------------------------------------------------------------------------
\* XPathContext

\* __init__(root, item, position, size, variables); d is the dictionary object
NewContext(item, position, size, d) ==
    [item |-> IF item # None THEN item
              ELSE IF is_element_node(RootObj) THEN RootObj
              ELSE Elem(1),
     position |-> position,
     size |-> size,
     variables |-> d,
     pm |-> 0,
     iterator |-> "none",
     kind |-> "element"]

\* status = self.item, self.size, self.position, self._iterator
StatusOf(cx) ==
    [item |-> cx.item, size |-> cx.size, position |-> cx.position,
     iterator |-> cx.iterator]

\* self.item, self.size, self.position, self._iterator = status
Restore(cx, st) ==
    [cx EXCEPT !.item = st.item, !.size = st.size, !.position = st.position,
               !.iterator = st.iterator]

\* A generator object that has not run yet: its arguments, and its locals unset.
NewFrame(c, axis, arg) ==
    [c |-> c, axis |-> axis, arg |-> arg, pc |-> "start",
     status |-> StatusOf(ctxs[c]), elem |-> None, lst |-> <<>>, idx |-> 0,
     path |-> <<>>, out |-> <<>>, pre |-> ctxs[c]]

\* The three ways a resumed generator stops.
Yield(cx, f, pc, v) ==
    [cx |-> cx, f |-> [f EXCEPT !.pc = pc, !.out = Append(@, v)], ev |-> "yield"]

Return(cx, f) == [cx |-> cx, f |-> [f EXCEPT !.pc = "end"], ev |-> "done"]

Raise(cx, f) == [cx |-> cx, f |-> [f EXCEPT !.pc = "end"], ev |-> "error"]

\* if item is not None: self.item = item
WithArg(cx, arg) == IF arg # None THEN [cx EXCEPT !.item = arg] ELSE cx

----------------------------------------------------------------------------
\* iter_self

SelfStart(cx, f) ==
    LET c1 == [cx EXCEPT !.iterator = "iter_self", !.kind = "element"]
    IN  Yield(c1, [f EXCEPT !.status = StatusOf(cx)], "y", c1.item)

SelfResume(cx, f) == Return(Restore(cx, f.status), f)

----------------------------------------------------------------------------
\* iter_attributes

AttrLoop(cx, f) ==
    IF f.idx < Len(f.lst)
    THEN LET item == f.lst[f.idx + 1]
         IN  Yield([cx EXCEPT !.item = item], [f EXCEPT !.idx = @ + 1], "y", item)
    ELSE Return([Restore(cx, f.status) EXCEPT !.kind = "element"], f)

AttrStart(cx, f) ==
    IF is_element_node(cx.item)
    THEN LET c1 == [cx EXCEPT !.iterator = "iter_self", !.kind = "attribute"]
         IN  AttrLoop(c1, [f EXCEPT !.status = StatusOf(cx),
                                    !.lst = Sorted(attrib[c1.item.a])])
    ELSE Return(cx, f)

AttrResume(cx, f) == AttrLoop(cx, f)

----------------------------------------------------------------------------
\* iter_descendants.  f.path holds the frames of the nested _iter_descendants
\* generators, outermost first: e is the frame's elem, i the number of children
\* its for loop has taken from enumerate(elem).

Last(s) == s[Len(s)]

Front(s) == SubSeq(s, 1, Len(s) - 1)

\* _iter_descendants() up to its first yield: elem = self.item; yield self.item
DescEnter(cx, f) ==
    Yield(cx, [f EXCEPT !.path = Append(@, [e |-> cx.item, i |-> 0])], "yelem", cx.item)

RECURSIVE DescLoop(_, _)
\* The for loop of the innermost frame: its next child, or the end of the frame
\* and the loop of the frame that called it.
DescLoop(cx, f) ==
    IF f.path = <<>> THEN Return(Restore(cx, f.status), f)
    ELSE LET top == Last(f.path)
         IN  IF top.i < Len(Children(top.e))
             THEN DescEnter([cx EXCEPT !.position = top.i,
                                       !.item = Elem(Children(top.e)[top.i + 1])],
                            [f EXCEPT !.path[Len(f.path)].i = top.i + 1])
             ELSE DescLoop(cx, [f EXCEPT !.path = Front(@)])

\* if len(elem): self.size = len(elem); for ...
DescChildren(cx, f) ==
    LET elem == Last(f.path).e
    IN  IF Len(Children(elem)) > 0
        THEN DescLoop([cx EXCEPT !.size = Len(Children(elem))], f)
        ELSE DescLoop(cx, [f EXCEPT !.path = Front(@)])

\* A start that leaves size and position alone at the document node.
DescStartKeepsSize(cx, f) ==
    LET c1 == WithArg([cx EXCEPT !.iterator = "iter_descendants"], f.arg)
        f1 == [f EXCEPT !.status = StatusOf(cx)]
    IN  IF c1.item = None THEN Yield(c1, f1, "yroot", RootObj)
        ELSE IF ~is_etree_element(c1.item) THEN Return(c1, f1)
        ELSE DescEnter(c1, f1)

DescStart(cx, f) ==
    LET c1 == WithArg([cx EXCEPT !.iterator = "iter_descendants"], f.arg)
        f1 == [f EXCEPT !.status = StatusOf(cx)]
    IN  IF c1.item = None
        THEN Yield([c1 EXCEPT !.size = 1, !.position = 0], f1, "yroot", RootObj)
        ELSE IF ~is_etree_element(c1.item) THEN Return(c1, f1)
        ELSE DescEnter(c1, f1)

\* The descendants without the yield of elem.text.
DescResumeNoText(cx, f) ==
    CASE f.pc = "yroot" -> DescEnter([cx EXCEPT !.item = RootElem], f)
      [] f.pc = "yelem" -> DescChildren(cx, f)
      [] f.pc = "ytext" -> DescChildren(cx, f)

DescResume(cx, f) ==
    CASE f.pc = "yroot" -> DescEnter([cx EXCEPT !.item = RootElem], f)
      [] f.pc = "yelem" ->
            LET elem == Last(f.path).e
            IN  IF TextOf(elem) # None
                THEN Yield([cx EXCEPT !.item = TextOf(elem)], f, "ytext", TextOf(elem))
                ELSE DescChildren(cx, f)
      [] f.pc = "ytext" -> DescChildren(cx, f)

----------------------------------------------------------------------------
\* iter_children

ChildLoop(cx, f) ==
    IF f.idx < Len(Children(f.elem))
    THEN LET c1 == [cx EXCEPT !.position = f.idx,
                              !.item = Elem(Children(f.elem)[f.idx + 1])]
         IN  Yield(c1, [f EXCEPT !.idx = @ + 1], "ychild", c1.item)
    ELSE Return(Restore(cx, f.status), f)

\* The children's loop without self.size = len(elem).
ChildSizeStale(cx, f) == ChildLoop(cx, f)

\* self.size = len(elem); for ...
ChildSize(cx, f) == ChildLoop([cx EXCEPT !.size = Len(Children(f.elem))], f)

ChildStart(cx, f) ==
    LET c1 == WithArg([cx EXCEPT !.iterator = "iter_children"], f.arg)
        f1 == [f EXCEPT !.status = StatusOf(cx)]
    IN  IF c1.item = None
        THEN LET c2 == [c1 EXCEPT !.size = 1, !.position = 0, !.item = RootElem]
             IN  Yield(c2, f1, "yroot", c2.item)
        ELSE IF is_element_node(c1.item)
        THEN LET f2 == [f1 EXCEPT !.elem = c1.item]
             IN  IF TextOf(f2.elem) # None
                 THEN Yield([c1 EXCEPT !.item = TextOf(f2.elem)], f2, "ytext",
                            TextOf(f2.elem))
                 ELSE ChildSize(c1, f2)
        ELSE Return(Restore(c1, f1.status), f1)

ChildResume(cx, f) ==
    CASE f.pc = "yroot" -> Return(Restore(cx, f.status), f)
      [] f.pc = "ytext" -> ChildSize(cx, f)
      [] f.pc = "ychild" -> ChildLoop(cx, f)

----------------------------------------------------------------------------
\* iter_ancestors

\* The parent_map property: the first read builds the dictionary, object
\* number nbuilt + 1; whether a read built it is cx.pm changing from 0.
WithParentMap(cx) == IF cx.pm = 0 THEN [cx EXCEPT !.pm = nbuilt + 1] ELSE cx

\* The while loop without the test `parent is elem`.
AncLoopUnguarded(cx, f) ==
    LET parent == Lookup(cx.item)
    IN  IF parent = 0 THEN Return(Restore(cx, f.status), f)
        ELSE Yield([cx EXCEPT !.item = Elem(parent)], f, "y", Elem(parent))

\* One turn of the while loop
AncLoop(cx, f) ==
    LET parent == Lookup(cx.item)
    IN  IF parent = 0 THEN Return(Restore(cx, f.status), f)
        ELSE IF Elem(parent) = f.elem THEN Raise(cx, f)
        ELSE Yield([cx EXCEPT !.item = Elem(parent)], f, "y", Elem(parent))

AncStart(cx, f) ==
    LET c1 == WithArg([cx EXCEPT !.iterator = "iter_ancestors"], f.arg)
        f1 == [f EXCEPT !.status = StatusOf(cx)]
    IN  IF ~is_etree_element(c1.item) THEN Return(c1, f1)
        ELSE AncLoop(WithParentMap(c1), [f1 EXCEPT !.elem = c1.item])

AncResume(cx, f) == AncLoop(cx, f)

----------------------------------------------------------------------------
\* XPathToken: boolean, name and the default select

\* What a call of a helper method came to.
Returned(v) == [how |-> "return", v |-> v]

\* self.wrong_type(message) raises the type error.
wrong_type == [how |-> "error", v |-> None]

\* A coercion that takes the truth of the first item whatever the length.
BooleanOfFirst(v) ==
    IF IsList(v)
    THEN IF ~Truthy(v) THEN Returned(Bool(FALSE))
         ELSE IF is_xpath_node(v.items[1]) THEN Returned(Bool(TRUE))
         ELSE Returned(Bool(Truthy(v.items[1])))
    ELSE IF IsTuple(v) \/ is_etree_element(v) THEN wrong_type
    ELSE Returned(Bool(Truthy(v)))

boolean(v) ==
    IF IsList(v)
    THEN IF ~Truthy(v) THEN Returned(Bool(FALSE))
         ELSE IF is_xpath_node(v.items[1]) THEN Returned(Bool(TRUE))
         ELSE IF Len(v.items) > 1 THEN wrong_type
         ELSE Returned(Bool(Truthy(v.items[1])))
    ELSE IF IsTuple(v) \/ is_etree_element(v) THEN wrong_type
    ELSE Returned(Bool(Truthy(v)))

name(v) ==
    IF is_element_node(v) THEN Returned(Tag(v.a))
    ELSE IF is_attribute_node(v) THEN Returned(Name(v.a))
    ELSE IF is_document_node(v) \/ is_namespace_node(v) THEN Returned(EmptyStr)
    ELSE IF Truthy(v) \/ (IsList(v) /\ ~Truthy(v)) THEN Returned(EmptyStr)
    ELSE wrong_type

\* A select that yields without moving the context.
SelectStartNoMove(cx, f) ==
    IF f.arg # None THEN Yield(cx, f, "y", f.arg) ELSE Return(cx, f)

\* select(context) up to its yield; f.arg is what self.evaluate(context) returned
SelectStart(cx, f) ==
    IF f.arg # None THEN Yield([cx EXCEPT !.item = f.arg], f, "y", f.arg)
    ELSE Return(cx, f)

SelectResume(cx, f) == Return(cx, f)

----------------------------------------------------------------------------
\* The consumer's operations

NoLast == [how |-> "none"]

NoResult == [fn |-> "none", how |-> "none", v |-> None]

\* No helper method has been called and no token evaluated.
NoCalls == value = None /\ result = NoResult /\ evals = 0

\* Context c after generator f (new, or the innermost suspended one when
\* resumed) ran to r: a yield suspends it on top of the generators `below`.
Ran(c, r, below) ==
    /\ ctxs' = [ctxs EXCEPT ![c] = r.cx]
    /\ nbuilt' = IF r.cx.pm # ctxs[c].pm THEN nbuilt + 1 ELSE nbuilt
    /\ stack' = IF r.ev = "yield" THEN Append(below, r.f) ELSE below
    /\ last' = IF r.ev = "yield" THEN NoLast ELSE [how |-> r.ev, f |-> r.f]
    /\ UNCHANGED <<kids, txt, attrib, rootDoc, dicts, value, result, evals>>

\* A context runs one axis step: nothing is suspended and nothing has ended.
Idle == stack = <<>> /\ last = NoLast

\* The values a cursor or an item argument can be.
Items == {Elem(e) : e \in Nodes} \cup {Cmt, Text(1), Pair(1, 1), Num(5)}

\* next(context.iter_self())
BeginSelf ==
    /\ Idle
    /\ Ran(1, SelfStart(ctxs[1], NewFrame(1, "self", None)), stack)

\* next(context.iter_attributes())
BeginAttributes ==
    /\ Idle
    /\ Ran(1, AttrStart(ctxs[1], NewFrame(1, "attributes", None)), stack)

\* next(context.iter_descendants(item))
BeginDescendants ==
    /\ Idle
    /\ \E arg \in Items \cup {None} :
          Ran(1, DescStart(ctxs[1], NewFrame(1, "descendants", arg)), stack)

\* next(context.iter_children(item))
BeginChildren ==
    /\ Idle
    /\ \E arg \in Items \cup {None} :
          Ran(1, ChildStart(ctxs[1], NewFrame(1, "children", arg)), stack)

\* next(context.iter_ancestors(item))
BeginAncestors ==
    /\ Idle
    /\ \E arg \in Items \cup {None} :
          Ran(1, AncStart(ctxs[1], NewFrame(1, "ancestors", arg)), stack)

\* The generator's code from the yield it is suspended at.
Step(cx, f) ==
    CASE f.axis = "self" -> SelfResume(cx, f)
      [] f.axis = "attributes" -> AttrResume(cx, f)
      [] f.axis = "descendants" -> DescResume(cx, f)
      [] f.axis = "children" -> ChildResume(cx, f)
      [] f.axis = "ancestors" -> AncResume(cx, f)
      [] f.axis = "select" -> SelectResume(cx, f)

\* next(g) on the innermost suspended generator
Resume ==
    /\ stack # <<>>
    /\ Len(Last(stack).out) < MaxOut
    /\ Ran(Last(stack).c, Step(ctxs[Last(stack).c], Last(stack)), Front(stack))

\* g.close(), or g garbage-collected, on the innermost suspended generator:
\* GeneratorExit is raised at its yield, and no axis has a try/finally.
Close ==
    /\ stack # <<>>
    /\ stack' = Front(stack)
    /\ last' = [how |-> "closed", f |-> Last(stack)]
    /\ UNCHANGED <<kids, txt, attrib, rootDoc, ctxs, dicts, nbuilt, value, result, evals>>

\* context.item = None: a token positions the context on the document node.
MoveToDocument ==
    /\ Idle
    /\ ctxs[1].item # None
    /\ ctxs' = [ctxs EXCEPT ![1].item = None]
    /\ UNCHANGED <<kids, txt, attrib, rootDoc, dicts, nbuilt, stack, last, value, result, evals>>

----------------------------------------------------------------------------
\* The documents

RECURSIVE SortedSeq(_)
\* The elements of a set of numbers, ascending.
SortedSeq(S) ==
    IF S = {} THEN <<>>
    ELSE LET m == CHOOSE x \in S : \A y \in S : x <= y
         IN  <<m>> \o SortedSeq(S \ {m})

\* The children lists of the tree in which p[e] is the parent of element e.
KidsOf(p) == [e \in Nodes |-> SortedSeq({c \in Nodes : p[c] = e})]

\* The trees on the elements 1..MaxNodes with root 1: each element numbered
\* after its parent, siblings in the order of their numbers.
TreeShapes ==
    {KidsOf(p) : p \in {q \in [Nodes -> 0..MaxNodes] :
                          q[1] = 0 /\ \A e \in Nodes \ {1} : q[e] \in 1..(e - 1)}}

RECURSIVE Perms(_)
\* The sequences that hold each element of S once.
Perms(S) ==
    IF S = {} THEN {<<>>}
    ELSE UNION {{<<x>> \o s : s \in Perms(S \ {x})} : x \in S}

\* The attribute mappings: any names of 1..MaxAttrs in any insertion order;
\* the values descend as the names ascend.
AttrLists ==
    UNION {{[i \in 1..Len(s) |-> Pair(s[i], MaxAttrs + 1 - s[i])] : s \in Perms(N)} :
             N \in SUBSET (1..MaxAttrs)}

\* Every name, inserted in descending order.
DescendingAttrs == [i \in 1..MaxAttrs |-> Pair(MaxAttrs + 1 - i, i)]

\* The tree in which each element but the last has one child.
Chain == KidsOf([e \in Nodes |-> e - 1])

\* Any tree and any texts, every element with the attributes DescendingAttrs.
TreeInputs ==
    /\ kids \in TreeShapes
    /\ txt \in SUBSET Nodes
    /\ attrib = [e \in Nodes |-> DescendingAttrs]

\* Any attribute mapping, the same on the elements of one tree.
AttrInputs ==
    /\ kids = Chain
    /\ txt = {}
    /\ \E al \in AttrLists : attrib = [e \in Nodes |-> al]

\* XPathContext(root), or XPathContext(root, item, position=1, size=2)
Contexts ==
    {NewContext(None, 0, 1, 1)} \cup {NewContext(item, 1, 2, 1) : item \in Items}

Init ==
    /\ TreeInputs \/ AttrInputs
    /\ rootDoc \in BOOLEAN
    /\ \E cx \in Contexts : ctxs = <<cx>>
    /\ dicts = <<[n \in {} |-> 0]>>
    /\ nbuilt = 0
    /\ stack = <<>>
    /\ last = NoLast
    /\ NoCalls

Next ==
    \/ BeginSelf
    \/ BeginAttributes
    \/ BeginDescendants
    \/ BeginChildren
    \/ BeginAncestors
    \/ Resume
    \/ Close
    \/ MoveToDocument

Spec == Init /\ [][Next]_vars

----------------------------------------------------------------------------
\* copy(), the parent_map property and the variables of the contexts

\* One variable name and the values bound to it.
VarNames == {"x"}

VarValues == {1, 2}

\* The content of context c's variables dictionary.
VarsOf(c) == dicts[ctxs[c].variables]

\* A copy that is the same dictionary object.
VariablesShared(d) == d

\* self.variables.copy(): a new dictionary object, the next of the heap
VariablesCopy(d) == Len(dicts) + 1

\* The object copy(item) returns for context cx.
CopyOf(cx, item) ==
    [NewContext(IF item = None THEN cx.item ELSE item, cx.position, cx.size,
                VariablesCopy(cx.variables))
       EXCEPT !.pm = cx.pm]

\* c.copy(item), and c.copy() for item None: the new context is the last of ctxs
CopyCall(c, item) ==
    /\ ctxs' = Append(ctxs, CopyOf(ctxs[c], item))
    /\ dicts' = Append(dicts, VarsOf(c))

Copy ==
    /\ Len(ctxs) <= MaxCopies
    /\ \E c \in 1..Len(ctxs), item \in {None, Text(1)} : CopyCall(c, item)
    /\ UNCHANGED <<kids, txt, attrib, rootDoc, nbuilt, stack, last, value, result, evals>>

\* c.parent_map
ReadParentMap ==
    \E c \in 1..Len(ctxs) :
        /\ ctxs' = [ctxs EXCEPT ![c] = WithParentMap(@)]
        /\ nbuilt' = IF ctxs[c].pm = 0 THEN nbuilt + 1 ELSE nbuilt
        /\ UNCHANGED <<kids, txt, attrib, rootDoc, dicts, stack, last, value, result, evals>>

\* c.variables[n] = v: n is added or rebound
SetVar(c, n, v) ==
    /\ dicts' = [dicts EXCEPT ![ctxs[c].variables] =
                    [x \in DOMAIN @ \cup {n} |-> IF x = n THEN v ELSE @[x]]]
    /\ UNCHANGED <<kids, txt, attrib, rootDoc, ctxs, nbuilt, stack, last, value, result, evals>>

\* del c.variables[n]
DelVar(c, n) ==
    /\ n \in DOMAIN VarsOf(c)
    /\ dicts' = [dicts EXCEPT ![ctxs[c].variables] = [x \in DOMAIN @ \ {n} |-> @[x]]]
    /\ UNCHANGED <<kids, txt, attrib, rootDoc, ctxs, nbuilt, stack, last, value, result, evals>>

SetSomeVar == \E c \in 1..Len(ctxs), n \in VarNames, v \in VarValues : SetVar(c, n, v)

DelSomeVar == \E c \in 1..Len(ctxs), n \in VarNames : DelVar(c, n)

InitCopy ==
    /\ kids = Chain
    /\ txt = {}
    /\ attrib = [e \in Nodes |-> <<>>]
    /\ rootDoc = FALSE
    /\ ctxs = <<NewContext(None, 0, 1, 1)>>
    /\ dicts = <<[n \in {} |-> 0]>>
    /\ nbuilt = 0
    /\ stack = <<>>
    /\ last = NoLast
    /\ NoCalls

NextCopy ==
    \/ Copy
    \/ MoveToDocument
    \/ ReadParentMap
    \/ SetSomeVar
    \/ DelSomeVar

SpecCopy == InitCopy /\ [][NextCopy]_vars

----------------------------------------------------------------------------
\* Element structures that are not trees: an element may be a child of itself
\* or of one of its descendants.  root.iter() of such a structure is taken to
\* end, each element enumerated once (IterFrom).

\* Any structure in which every element has at most one parent, itself included.
Structures == {KidsOf(q) : q \in [Nodes -> 0..MaxNodes]}

InitCyc ==
    /\ kids \in Structures
    /\ txt = {}
    /\ attrib = [e \in Nodes |-> <<>>]
    /\ rootDoc = FALSE
    /\ ctxs = <<NewContext(None, 0, 1, 1)>>
    /\ dicts = <<[n \in {} |-> 0]>>
    /\ nbuilt = 0
    /\ stack = <<>>
    /\ last = NoLast
    /\ NoCalls

NextCyc ==
    \/ BeginAncestors
    \/ Resume

SpecCyc == InitCyc /\ [][NextCyc]_vars

----------------------------------------------------------------------------
\* Nested traversals: a consumer that holds a suspended generator starts
\* another one on the same context and consumes it before it resumes the first.

\* Generators suspended on one context at a time.
MaxDepth == 2

Axes == {"self", "attributes", "descendants", "children", "ancestors"}

\* The item arguments of the nested calls.
NestedArgs == {None, Text(1), Elem(2)}

\* The generator's code up to its first yield.
Start(cx, f) ==
    CASE f.axis = "self" -> SelfStart(cx, f)
      [] f.axis = "attributes" -> AttrStart(cx, f)
      [] f.axis = "descendants" -> DescStart(cx, f)
      [] f.axis = "children" -> ChildStart(cx, f)
      [] f.axis = "ancestors" -> AncStart(cx, f)

\* next(g) of a new generator g while another one is suspended
BeginNested ==
    /\ stack # <<>>
    /\ Len(stack) < MaxDepth
    /\ \E axis \in Axes, arg \in NestedArgs :
          /\ axis \in {"self", "attributes"} => arg = None
          /\ Ran(1, Start(ctxs[1], NewFrame(1, axis, arg)), stack)

\* The root with a text and two children, the first with the other elements as
\* its children.
Bushy == KidsOf([e \in Nodes |-> IF e = 1 THEN 0 ELSE IF e <= 3 THEN 1 ELSE 2])

InitNested ==
    /\ kids = Bushy
    /\ txt = {1}
    /\ attrib = [e \in Nodes |-> DescendingAttrs]
    /\ rootDoc = FALSE
    /\ ctxs = <<NewContext(None, 0, 1, 1)>>
    /\ dicts = <<[n \in {} |-> 0]>>
    /\ nbuilt = 0
    /\ stack = <<>>
    /\ last = NoLast
    /\ NoCalls

NextNested ==
    \/ BeginSelf
    \/ BeginAttributes
    \/ BeginDescendants
    \/ BeginChildren
    \/ BeginAncestors
    \/ BeginNested
    \/ Resume

SpecNested == InitNested /\ [][NextNested]_vars

----------------------------------------------------------------------------
\* The token's helper methods, called on any value

\* Items of a list are at most this many.
MaxLen == 2

Scalars ==
    {None, Elem(1), Elem(MaxNodes), Cmt, PI, Doc, Text(1), EmptyStr, Pair(1, 1),
     Namespace(1, 1), Num(0), Num(5), Bool(FALSE), Bool(TRUE)}

ListItems == {None, Elem(1), Doc, Text(1), EmptyStr, Pair(1, 1), Num(0), Num(5), List(<<>>)}

Lists == {List(s) : s \in UNION {[1..n -> ListItems] : n \in 0..MaxLen}}

Values == Scalars \cup Lists

\* token.boolean(value)
CallBoolean ==
    /\ result' = [fn |-> "boolean"] @@ boolean(value)
    /\ UNCHANGED <<kids, txt, attrib, rootDoc, ctxs, dicts, nbuilt, stack, last, value, evals>>

\* token.name(value)
CallName ==
    /\ result' = [fn |-> "name"] @@ name(value)
    /\ UNCHANGED <<kids, txt, attrib, rootDoc, ctxs, dicts, nbuilt, stack, last, value, evals>>

\* The node type tests that hold of an object, each called with the object alone.
KindsOf(obj) ==
    {t \in {"element", "comment", "processing-instruction", "document", "attribute",
            "namespace", "text"} :
        CASE t = "element" -> is_element_node(obj)
          [] t = "comment" -> is_comment_node(obj)
          [] t = "processing-instruction" -> is_processing_instruction_node(obj)
          [] t = "document" -> is_document_node(obj)
          [] t = "attribute" -> is_attribute_node(obj)
          [] t = "namespace" -> is_namespace_node(obj)
          [] t = "text" -> is_text_node(obj)}

\* The seven tests are called on the value.
Classify ==
    /\ result' = [fn |-> "kinds", how |-> "return", v |-> KindsOf(value)]
    /\ UNCHANGED <<kids, txt, attrib, rootDoc, ctxs, dicts, nbuilt, stack, last, value, evals>>

InitHelpers ==
    /\ kids = Chain
    /\ txt = {}
    /\ attrib = [e \in Nodes |-> <<>>]
    /\ rootDoc = FALSE
    /\ ctxs = <<NewContext(None, 0, 1, 1)>>
    /\ dicts = <<[n \in {} |-> 0]>>
    /\ nbuilt = 0
    /\ stack = <<>>
    /\ last = NoLast
    /\ value \in Values
    /\ result = NoResult
    /\ evals = 0

NextHelpers ==
    \/ CallBoolean
    \/ CallName
    \/ Classify

SpecHelpers == InitHelpers /\ [][NextHelpers]_vars

----------------------------------------------------------------------------
\* The default select of a token on a context

\* What self.evaluate(context) returns: a value, or None.
EvaluateResults == Items \cup {None}

\* next(token.select(context))
BeginSelect ==
    /\ Idle
    /\ \E item \in EvaluateResults :
          LET r == SelectStart(ctxs[1], NewFrame(1, "select", item))
          IN  /\ ctxs' = [ctxs EXCEPT ![1] = r.cx]
              /\ stack' = IF r.ev = "yield" THEN Append(stack, r.f) ELSE stack
              /\ last' = IF r.ev = "yield" THEN NoLast ELSE [how |-> r.ev, f |-> r.f]
    /\ evals' = evals + 1
    /\ UNCHANGED <<kids, txt, attrib, rootDoc, dicts, nbuilt, value, result>>

InitSelect ==
    /\ kids = Chain
    /\ txt = {}
    /\ attrib = [e \in Nodes |-> <<>>]
    /\ rootDoc \in BOOLEAN
    /\ \E cx \in Contexts : ctxs = <<cx>>
    /\ dicts = <<[n \in {} |-> 0]>>
    /\ nbuilt = 0
    /\ stack = <<>>
    /\ last = NoLast
    /\ NoCalls

NextSelect ==
    \/ BeginSelect
    \/ Resume
    \/ Close
    \/ MoveToDocument

SpecSelect == InitSelect /\ [][NextSelect]_vars

----------------------------------------------------------------------------
\* What the claims speak of

\* The item a generator starts on: its item argument, or else the cursor.
StartItem(f) == IF f.arg # None THEN f.arg ELSE f.pre.item

\* The generator that ended last, and how it ended.
Ended(how, axis) == last.how = how /\ last.f.axis = axis

\* The innermost generator is one of this axis, suspended at this yield.
At(axis, pc) == stack # <<>> /\ Last(stack).axis = axis /\ Last(stack).pc = pc

\* The parent of element e in the document, 0 for the root element.
ParentOf(e) == IF \E p \in Nodes : \E i \in 1..Len(kids[p]) : kids[p][i] = e
               THEN CHOOSE p \in Nodes : \E i \in 1..Len(kids[p]) : kids[p][i] = e
               ELSE 0

\* The 0-based place of element e among the children of p.
IndexIn(e, p) == (CHOOSE i \in 1..Len(kids[p]) : kids[p][i] = e) - 1

\* C1: when a consumer has taken one or more values of an axis traversal and
\* then closes the generator before it is exhausted, the context's item, size
\* and position are those of before the traversal.
C1_ClosedRestoresCursor ==
    last.how = "closed" =>
        /\ ctxs[last.f.c].item = last.f.pre.item
        /\ ctxs[last.f.c].size = last.f.pre.size
        /\ ctxs[last.f.c].position = last.f.pre.position

\* C2: when an axis traversal has been consumed to exhaustion without error,
\* whatever item it started on, the context's item, size, position and
\* active_iterator are those of when the traversal began.
C2_ExhaustedRestoresStatus ==
    last.how = "done" => StatusOf(ctxs[last.f.c]) = StatusOf(last.f.pre)

\* C3: at every yield by iter_descendants of an element that is a child in the
\* traversed subtree, context.size is the number of children of the element's
\* parent and context.position the element's 0-based index among them.
C3_DescendantSizePosition ==
    (At("descendants", "yelem") /\ Len(Last(stack).path) >= 2) =>
        LET cx == ctxs[Last(stack).c]
            e == cx.item.a
        IN  /\ cx.item = Elem(e)
            /\ cx.size = Len(kids[ParentOf(e)])
            /\ cx.position = IndexIn(e, ParentOf(e))

\* s is the beginning of t.
IsPrefix(s, t) == Len(s) <= Len(t) /\ s = SubSeq(t, 1, Len(s))

\* The text of an element-like object as a sequence: empty when it is None.
TextSeq(obj) == IF TextOf(obj) = None THEN <<>> ELSE <<TextOf(obj)>>

RECURSIVE PreOrder(_), PreOrderAll(_)
\* The document order of the subtree of element e: e, its text, then the
\* subtrees of its children.
PreOrder(e) == <<Elem(e)>> \o TextSeq(Elem(e)) \o PreOrderAll(kids[e])

PreOrderAll(es) == IF es = <<>> THEN <<>> ELSE PreOrder(Head(es)) \o PreOrderAll(Tail(es))

PreOrderOf(obj) == IF obj.k = "elem" THEN PreOrder(obj.a) ELSE <<obj>> \o TextSeq(obj)

\* C4: iter_descendants started on an element-like item yields the pre-order
\* sequence of its subtree, each element once and followed by its text when it
\* has one, then its children's subtrees in document order; started on another
\* item that is not the document sentinel it yields nothing.
C4_DescendantsPreOrder ==
    /\ (Ended("done", "descendants") /\ StartItem(last.f) # None) =>
          last.f.out = IF is_etree_element(StartItem(last.f))
                       THEN PreOrderOf(StartItem(last.f)) ELSE <<>>
    /\ (stack # <<>> /\ Last(stack).axis = "descendants"
          /\ StartItem(Last(stack)) # None) =>
          /\ is_etree_element(StartItem(Last(stack)))
          /\ IsPrefix(Last(stack).out, PreOrderOf(StartItem(Last(stack))))

\* C4, witness: the traversal of root(text, children a, b(c)) has ended with root, text, a, b, c.
C4_Witness ==
    /\ Ended("done", "descendants")
    /\ StartItem(last.f) = Elem(1)
    /\ txt = {1}
    /\ kids = <<<<2, 3>>, <<>>, <<4>>, <<>>>>
    /\ last.f.out = <<Elem(1), Text(1), Elem(2), Elem(3), Elem(4)>>

\* The children of element e as items.
ChildItems(e) == [i \in 1..Len(kids[e]) |-> Elem(kids[e][i])]

\* C5: iter_children on an element yields its text, when it has one, and then
\* its children in document order, with context.size the number of children and
\* context.position the child's index at each child; at the document sentinel
\* it yields the root element alone; on any other item it yields nothing.
C5_Children ==
    /\ Ended("done", "children") =>
          LET E == StartItem(last.f)
          IN  last.f.out = IF E = None THEN <<Elem(1)>>
                           ELSE IF E.k = "elem" THEN TextSeq(E) \o ChildItems(E.a)
                           ELSE <<>>
    /\ At("children", "ychild") =>
          LET f == Last(stack)
              E == StartItem(f)
              cx == ctxs[f.c]
          IN  /\ E.k = "elem"
              /\ cx.size = Len(kids[E.a])
              /\ cx.position = Len(f.out) - Len(TextSeq(E)) - 1
              /\ cx.item = ChildItems(E.a)[cx.position + 1]
              /\ Last(f.out) = cx.item

\* C5, witness: a child traversal of an element with text and two children is at its second child.
C5_Witness ==
    /\ At("children", "ychild")
    /\ StartItem(Last(stack)) = Elem(1)
    /\ 1 \in txt
    /\ Len(kids[1]) = 2
    /\ ctxs[1].position = 1
    /\ Last(stack).out = <<Text(1), Elem(kids[1][1]), Elem(kids[1][2])>>

\* The items of a sequence.
Range(s) == {s[i] : i \in 1..Len(s)}

\* C6: iter_attributes on an element yields the element's attribute pairs,
\* each once, in ascending order of name whatever the insertion order, with
\* context.item the pair at each yield; not on an element it yields nothing and
\* changes no field of the context.
C6_Attributes ==
    /\ Ended("done", "attributes") =>
          LET E == last.f.pre.item
              out == last.f.out
          IN  IF E.k = "elem"
              THEN /\ Range(out) = Range(attrib[E.a])
                   /\ Len(out) = Len(attrib[E.a])
                   /\ \A i, j \in 1..Len(out) : i < j => out[i].a < out[j].a
              ELSE out = <<>> /\ ctxs[last.f.c] = last.f.pre
    /\ At("attributes", "y") => ctxs[Last(stack).c].item = Last(Last(stack).out)

\* C6, witness: attributes inserted as 2, 1 have been yielded as 1, 2.
C6_Witness ==
    /\ Ended("done", "attributes")
    /\ attrib[1] = <<Pair(2, 1), Pair(1, 2)>>
    /\ last.f.pre.item = Elem(1)
    /\ last.f.out = <<Pair(1, 2), Pair(2, 1)>>

RECURSIVE AncestorChain(_)
\* The ancestors of element e, nearest first.
AncestorChain(e) ==
    IF ParentOf(e) = 0 THEN <<>>
    ELSE <<Elem(ParentOf(e))>> \o AncestorChain(ParentOf(e))

RECURSIVE Depth(_)
\* The number of edges between element e and the root element.
Depth(e) == IF e = 1 THEN 0 ELSE 1 + Depth(ParentOf(e))

\* C7: in a tree, iter_ancestors started on a node at depth d yields its d
\* ancestors, parent first and root element last, and then ends; started on
\* the root element, or on an item that is not element-like, it yields nothing.
C7_Ancestors ==
    /\ ~Ended("error", "ancestors")
    /\ Ended("done", "ancestors") =>
          LET E == StartItem(last.f)
          IN  IF E.k = "elem"
              THEN last.f.out = AncestorChain(E.a) /\ Len(last.f.out) = Depth(E.a)
              ELSE last.f.out = <<>>
    /\ (stack # <<>> /\ Last(stack).axis = "ancestors") =>
          LET E == StartItem(Last(stack))
          IN  /\ E.k = "elem"
              /\ IsPrefix(Last(stack).out, AncestorChain(E.a))
              /\ Len(Last(stack).out) < MaxOut

\* C7, witness: the traversal started on the deepest element of a chain has ended with all its ancestors.
C7_Witness ==
    /\ Ended("done", "ancestors")
    /\ kids = Chain
    /\ StartItem(last.f) = Elem(4)
    /\ last.f.out = <<Elem(3), Elem(2), Elem(1)>>

RECURSIVE Up(_, _)
\* The k-th ancestor of element e by the parent map, 0 when there is none.
Up(e, k) == IF k = 0 \/ e = 0 THEN e ELSE Up(ParentMap[e], k - 1)

\* The lengths of the cycles of the parent map through element e.
CyclesThrough(e) == {k \in 1..MaxNodes : Up(e, k) = e}

\* C8 as claimed: a node whose parent is the starting node makes the traversal
\* raise instead of yielding that parent, and what this detects is the one-hop
\* self-loop, not a longer cycle: the error is raised only for a starting node
\* that is its own parent.
C8_OnlySelfLoopDetected ==
    /\ (stack # <<>> /\ Last(stack).axis = "ancestors") =>
          StartItem(Last(stack)) \notin Range(Last(stack).out)
    /\ Ended("error", "ancestors") =>
          /\ Lookup(ctxs[last.f.c].item) = StartItem(last.f).a
          /\ ParentMap[StartItem(last.f).a] = StartItem(last.f).a

\* C8, amended: a node whose parent is the starting node makes the traversal
\* raise instead of yielding that parent.  This detects the cycles through the
\* starting node and only those: the traversal raises exactly when the starting
\* node is on a cycle of the parent map, of whatever length, after yielding the
\* other nodes of that cycle; it ends normally exactly when the chain of
\* parents ends; on a cycle the starting node is not on it yields without end.
C8_Circularity ==
    /\ (stack # <<>> /\ Last(stack).axis = "ancestors") =>
          LET f == Last(stack)
              E == StartItem(f)
          IN  /\ E.k = "elem"
              /\ E \notin Range(f.out)
              /\ \A i \in 1..Len(f.out) : f.out[i] = Elem(Up(E.a, i))
              /\ \A k \in CyclesThrough(E.a) : Len(f.out) < k
    /\ Ended("error", "ancestors") =>
          LET f == last.f
              E == StartItem(f)
          IN  /\ E.k = "elem"
              /\ Lookup(ctxs[f.c].item) = E.a
              /\ E \notin Range(f.out)
              /\ CyclesThrough(E.a) # {}
              /\ \A k \in CyclesThrough(E.a) : Len(f.out) + 1 <= k
              /\ Len(f.out) + 1 \in CyclesThrough(E.a)
    /\ (Ended("done", "ancestors") /\ StartItem(last.f).k = "elem") =>
          /\ CyclesThrough(StartItem(last.f).a) = {}
          /\ Up(StartItem(last.f).a, Len(last.f.out) + 1) = 0

\* C8, witness: a cycle of two nodes is detected: the traversal started on element 1 has
\* yielded element 2, whose parent is element 1, and raised.
C8_Witness ==
    /\ Ended("error", "ancestors")
    /\ StartItem(last.f) = Elem(1)
    /\ last.f.out = <<Elem(2)>>
    /\ ParentMap[2] = 1

\* C9: a context and its copies expose one parent_map object, whether a copy
\* was made before or after the first read of the parent map, and the map is
\* built by a full tree walk at most once.
C9_OneParentMap ==
    /\ nbuilt <= 1
    /\ \A i, j \in 1..Len(ctxs) :
          (ctxs[i].pm # 0 /\ ctxs[j].pm # 0) => ctxs[i].pm = ctxs[j].pm

\* C10: adding, rebinding or removing an entry of the variables of a context
\* changes the variables of that context and leaves those of every other
\* context, the one it was copied from and its copies, as they were.
C10_VariablesIndependent ==
    [][\A c \in 1..Len(ctxs), n \in VarNames :
          /\ \A v \in VarValues : SetVar(c, n, v) =>
                /\ n \in DOMAIN VarsOf(c)' /\ VarsOf(c)'[n] = v
                /\ \A i \in 1..Len(ctxs) : i # c => VarsOf(i)' = VarsOf(i)
          /\ DelVar(c, n) =>
                /\ n \notin DOMAIN VarsOf(c)'
                /\ \A i \in 1..Len(ctxs) : i # c => VarsOf(i)' = VarsOf(i)]_vars

\* C10, witness: a copy's entry has been rebound and the original's has not.
C10_Witness ==
    /\ Len(ctxs) >= 2
    /\ VarsOf(1) = [n \in {"x"} |-> 1]
    /\ VarsOf(2) = [n \in {"x"} |-> 2]

\* The kinds of the XPath nodes: pairs, element-like objects, documents, strings.
NodeKinds == {"pair", "namespace", "elem", "comment", "pi", "doc", "text", "tag", "name"}

\* The values Python takes for false.
Falsy == {None, Num(0), EmptyStr, Bool(FALSE), List(<<>>)}

\* C11: boolean(value) follows the effective-boolean-value table: an empty
\* sequence gives false; a sequence whose first item is a node gives true
\* whatever follows; a sequence of one item that is no node gives that item's
\* truth; a longer sequence whose first item is no node raises the type error;
\* a bare pair or element-like value raises the type error; any other value
\* gives its own truth.
C11_Boolean ==
    result.fn = "boolean" =>
        IF value.k = "list"
        THEN IF Len(value.items) = 0 THEN result = [fn |-> "boolean"] @@ Returned(Bool(FALSE))
             ELSE IF value.items[1].k \in NodeKinds
                  THEN result = [fn |-> "boolean"] @@ Returned(Bool(TRUE))
             ELSE IF Len(value.items) = 1
                  THEN result = [fn |-> "boolean"] @@ Returned(Bool(value.items[1] \notin Falsy))
             ELSE result.how = "error"
        ELSE IF value.k \in {"pair", "namespace", "elem", "comment", "pi"}
             THEN result.how = "error"
        ELSE result = [fn |-> "boolean"] @@ Returned(Bool(value \notin Falsy))

\* C11, witness: boolean([0, elem]) has raised the type error.
C11_Witness ==
    /\ result.fn = "boolean"
    /\ value = List(<<Num(0), Elem(1)>>)
    /\ result.how = "error"

\* C12: name(value) follows the node-name table: an Element gives its tag; an
\* attribute pair its first item; a Document or a Namespace node the empty
\* string; an empty sequence or a scalar that is false but defined the empty
\* string; any other value that is no node (the number 5, say) raises the type
\* error.
C12_Name ==
    result.fn = "name" =>
        CASE value.k = "elem" -> result = [fn |-> "name"] @@ Returned(Tag(value.a))
          [] value.k = "pair" -> result = [fn |-> "name"] @@ Returned(Name(value.a))
          [] value.k \in {"doc", "namespace"} -> result = [fn |-> "name"] @@ Returned(EmptyStr)
          [] value \in {List(<<>>), Num(0), Bool(FALSE)} ->
                result = [fn |-> "name"] @@ Returned(EmptyStr)
          [] value.k \in NodeKinds -> TRUE
          [] OTHER -> result.how = "error"

\* C13: the node type tests, called with the object alone, put every object
\* in at most one kind: of an element-like object with a string tag
\* is_element_node holds and the six other tests do not; of a pair exactly one
\* of is_attribute_node and is_namespace_node holds, is_namespace_node when the
\* pair carries the Namespace marker and is_attribute_node when it does not.
C13_OneKind ==
    result.fn = "kinds" =>
        /\ Cardinality(result.v) <= 1
        /\ value.k = "elem" => result.v = {"element"}
        /\ value.k = "pair" => result.v = {"attribute"}
        /\ value.k = "namespace" => result.v = {"namespace"}

\* C13, witness: a pair with the Namespace marker has been classified, as a namespace node only.
C13_Witness ==
    /\ result.fn = "kinds"
    /\ value = Namespace(1, 1)
    /\ result.v = {"namespace"}

\* The fields of a context that select is not to touch.
OtherFields(cx) == [cx EXCEPT !.item = None]

\* C14: the default select calls evaluate once; when evaluate returns None
\* the sequence is empty and context.item is unchanged; otherwise the sequence
\* holds that one value and, when it is produced, context.item is that value;
\* select changes no other field of the context.
C14_Select ==
    /\ At("select", "y") =>
          LET f == Last(stack)
          IN  /\ evals = 1
              /\ f.arg # None
              /\ f.out = <<f.arg>>
              /\ ctxs[f.c].item = f.arg
              /\ OtherFields(ctxs[f.c]) = OtherFields(f.pre)
    /\ (last.how \in {"done", "closed"} /\ last.f.axis = "select") =>
          /\ evals = 1
          /\ last.f.out = IF last.f.arg = None THEN <<>> ELSE <<last.f.arg>>
          /\ last.f.arg = None => ctxs[last.f.c].item = last.f.pre.item
          /\ OtherFields(ctxs[last.f.c]) = OtherFields(last.f.pre)
    /\ ~Ended("error", "select")

\* C14, witness: evaluate returned a text on a context positioned on an element; select has
\* yielded it and the context is on the text.
C14_Witness ==
    /\ At("select", "y")
    /\ Last(stack).pre.item = Elem(1)
    /\ Last(stack).out = <<Text(1)>>
    /\ ctxs[1].item = Text(1)

\* C15: from the first yield of iter_attributes until that traversal has
\* completed the context's node kind test is the attribute test, also when a
\* nested traversal (iter_self, say) has been run to exhaustion on the context
\* while the attribute traversal was suspended; once the attribute traversal
\* has completed, the test is the one in force before it started.
C15_KindTestForTheDuration ==
    /\ At("attributes", "y") => ctxs[Last(stack).c].kind = "attribute"
    /\ Ended("done", "attributes") => ctxs[last.f.c].kind = last.f.pre.kind

\* The method that is the traversal of an axis.
MethodOf(axis) ==
    CASE axis = "self" -> "iter_self"
      [] axis = "attributes" -> "iter_attributes"
      [] axis = "descendants" -> "iter_descendants"
      [] axis = "children" -> "iter_children"
      [] axis = "ancestors" -> "iter_ancestors"

\* C16: while an axis traversal is suspended at one of its yields and no other
\* traversal has been started on the context since that yield,
\* context.active_iterator is the traversal of that same axis.
C16_ActiveIterator ==
    stack # <<>> => ctxs[Last(stack).c].iterator = MethodOf(Last(stack).axis)

\* What a traversal yields when nothing else uses the context meanwhile.
Alone(f) ==
    LET E == StartItem(f)
    IN  CASE f.axis = "self" -> <<E>>
          [] f.axis = "attributes" -> IF E.k = "elem" THEN Sorted(attrib[E.a]) ELSE <<>>
          [] f.axis = "descendants" ->
                IF E = None THEN <<RootObj>> \o PreOrder(1)
                ELSE IF is_etree_element(E) THEN PreOrderOf(E) ELSE <<>>
          [] f.axis = "children" ->
                IF E = None THEN <<Elem(1)>>
                ELSE IF E.k = "elem" THEN TextSeq(E) \o ChildItems(E.a) ELSE <<>>
          [] f.axis = "ancestors" -> IF E.k = "elem" THEN AncestorChain(E.a) ELSE <<>>

\* C17: when an inner traversal is started on the context while an outer one
\* is suspended at a yield, and is consumed to exhaustion, then item, size and
\* position are those of the outer yield, and the outer traversal goes on to
\* yield what it yields when no inner traversal runs; for every pair of axes
\* and every depth of nesting.
C17_NestedUndisturbed ==
    /\ (last.how = "done" /\ stack # <<>>) =>
          /\ ctxs[last.f.c].item = last.f.pre.item
          /\ ctxs[last.f.c].size = last.f.pre.size
          /\ ctxs[last.f.c].position = last.f.pre.position
    /\ last.how = "done" => last.f.out = Alone(last.f)
    /\ \A i \in 1..Len(stack) : IsPrefix(stack[i].out, Alone(stack[i]))

\* C18: iter_descendants with the cursor at the document sentinel (item None)
\* first yields the root object of the document itself, with size 1 and
\* position 0, then the pre-order traversal of the document's root element, and
\* once it is exhausted the cursor is at the sentinel again, with the size and
\* the position of before the call.
C18_DescendantsFromDocument ==
    /\ At("descendants", "yroot") =>
          /\ StartItem(Last(stack)) = None
          /\ Last(stack).out = <<RootObj>>
          /\ ctxs[Last(stack).c].size = 1
          /\ ctxs[Last(stack).c].position = 0
    /\ (stack # <<>> /\ Last(stack).axis = "descendants"
          /\ StartItem(Last(stack)) = None) =>
          /\ Last(stack).out # <<>>
          /\ IsPrefix(Last(stack).out, <<RootObj>> \o PreOrder(1))
    /\ (Ended("done", "descendants") /\ StartItem(last.f) = None) =>
          /\ last.f.out = <<RootObj>> \o PreOrder(1)
          /\ ctxs[last.f.c].item = None
          /\ ctxs[last.f.c].size = last.f.pre.size
          /\ ctxs[last.f.c].position = last.f.pre.position

\* C18, witness: on a Document, a context of size 2 and position 1 moved to the sentinel has
\* been traversed: the document, the root element, its text and its child; the cursor is back.
C18_Witness ==
    /\ Ended("done", "descendants")
    /\ rootDoc
    /\ StartItem(last.f) = None
    /\ txt = {1}
    /\ kids = Chain
    /\ SubSeq(last.f.out, 1, 4) = <<Doc, Elem(1), Text(1), Elem(2)>>
    /\ ctxs[1].item = None
    /\ ctxs[1].size = 2
    /\ ctxs[1].position = 1

\* C19: copy() without an item returns a context whose item, position and
\* size are those of the original at the call, whatever the cursor of the
\* original, the document sentinel (item None) included.
C19_CopyKeepsCursor ==
    [][\A c \in 1..Len(ctxs) :
          (Len(ctxs) <= MaxCopies /\ CopyCall(c, None)) =>
              /\ Last(ctxs').item = ctxs[c].item
              /\ Last(ctxs').position = ctxs[c].position
              /\ Last(ctxs').size = ctxs[c].size]_vars

\* No element is twice in the sequence.
NoElementTwice(out) ==
    \A i, j \in 1..Len(out) : (i < j /\ out[i].k = "elem") => out[i] # out[j]

\* The generators there are: the suspended ones and the one that ended last.
Generators == Range(stack) \cup (IF last.how = "none" THEN {} ELSE {last.f})

\* C20: in one iter_descendants or iter_children traversal of a tree no element
\* is yielded more than once, whatever the cursor it starts from, item None on
\* a context whose root is an Element included; and iter_children never yields
\* the element the cursor of the traversal denotes.
C20_NoElementTwice ==
    \A f \in Generators :
        /\ f.axis \in {"descendants", "children"} => NoElementTwice(f.out)
        /\ f.axis = "children" => StartItem(f) \notin Range(f.out)

====
